---- MODULE Spec2Model ----
(***************************************************************************)
(* Model of the megawave microwave (package microwave): the three fields   *)
(* guarded by mu, and the goroutines that call PressDigit, PressStart and  *)
(* the countdown PressStart runs.  Every Lock(), every critical section    *)
(* and every group of logging / metric / print calls is one step of the    *)
(* calling goroutine, so goroutines interleave exactly where Go lets them. *)
(***************************************************************************)
EXTENDS Integers, Sequences, FiniteSets, TLC

\* ---------------------------------------------------------------- bounds
\* PressDigit is called with a valid digit only if the display it would
\* give reads at most MaxStart seconds, and the timer of a countdown is
\* followed only while at most MaxStart seconds remain
MaxStart == 1
\* the ghost counter nPressed stops counting at MaxPressed
MaxPressed == 5

\* the goroutines calling into one Microwave: as in the integration tests,
\* the test's own goroutine and the one it starts
Threads == {1, 2}
\* arguments PressDigit is called with while goroutines run concurrently:
\* the keys 0 and MaxStart, and one value on each side of the accepted range
DigitArgs == {-1, 0, MaxStart, 10}
\* arguments of the calls made one after the other: the ten keys and one
\* value on each side of the accepted range
EntryArgs == -1..10

VARIABLES
    digits,      \* Microwave.digits     [4]int, <<M1, M2, S1, S2>>
    digitCount,  \* Microwave.digitCount
    isCooking,   \* Microwave.isCooking
    mu,          \* Microwave.mu: 0 when unlocked, else the goroutine holding it
    pc,          \* per goroutine: the statement it is about to execute
    d,           \* per goroutine: argument d of PressDigit
    cooking,     \* per goroutine: local cooking of PressDigit / PressStart
    seconds,     \* per goroutine: local seconds of PressStart / countdown
    completed,   \* per goroutine: local completed of PressStart
    display,     \* per goroutine: local display / the string m.Display() returned
    ctxDone,     \* per goroutine: ctx.Done() of the call's context is closed
    cancelAt,    \* ghost, per goroutine: where the call was when ctx was canceled
    pressed,     \* ghost: the valid digits passed to PressDigit, in call order
    nPressed,    \* ghost: number of PressDigit calls with a valid digit
    emitted,     \* ghost, per goroutine: the "digit pressed" records its call logged
    typedAt,     \* ghost: for each byte typed and not yet taken by the main loop,
                 \* whether it is a digit typed while a countdown was running
    stdin,       \* runInteractive: the bytes typed and not yet read
    eof,         \* runInteractive: os.Stdin.Read has nothing more to return
    reader,      \* runInteractive: the statement the reading goroutine is about to execute
    buf,         \* runInteractive: buf[0] of the reading goroutine
    keyChan,     \* runInteractive: the buffered channel of keypresses
    errChan,     \* runInteractive: the buffered channel of read errors
    ctxCanceled, \* main: cancel() of ctx has been called, or a signal has arrived
    result,      \* runInteractive: the error it returned, "running" before it has
    environ,     \* the MEGAWAVE_* variables of the process, "" (empty) when unset
    flags,       \* the flags on the command line, NotGiven where there is none
    config,      \* what ParseConfig returned, NotParsed before it has
    otel         \* InitOTel: where the call is, its endpoint and error, the global
                 \* providers and propagator, and the providers that are running

shared == <<digits, digitCount, isCooking>>
locals == <<d, cooking, seconds, completed, display>>
ctxs   == <<ctxDone, cancelAt>>
ghost  == <<pressed, nPressed, emitted, typedAt>>
tty    == <<stdin, eof, reader, buf, keyChan, errChan, ctxCanceled, result>>
conf   == <<environ, flags, config, otel>>
vars   == <<digits, digitCount, isCooking, mu, pc, d, cooking, seconds,
            completed, display, ctxDone, cancelAt, pressed, nPressed, emitted, typedAt,
            stdin, eof, reader, buf, keyChan, errChan, ctxCanceled, result,
            environ, flags, config, otel>>

\* ------------------------------------------------------- pure functions
\* a display that is not cleared
NotZero == <<0, 0, 0, 1>>

\* [4]int{0, 0, 0, 0}, and the zero value of m.digits New leaves
Zero == <<0, 0, 0, 0>>

\* the range check without its upper half
InvalidDigitNoUpper(x) == x < 0

\* PressDigit: if d < 0 || d > 9 { ... return }
InvalidDigit(x) == x < 0 \/ x > 9

\* the capacity check off by one
AtCapacityOffByOne(n) == n > 4

\* PressDigit: if m.digitCount >= 4
AtCapacity(n) == n >= 4

\* the new digit stored without the shift
ShiftInNoShift(ds, x) == <<ds[1], ds[2], ds[3], x>>

\* PressDigit: shift digits left and add the new digit
ShiftIn(ds, x) == <<ds[2], ds[3], ds[4], x>>

\* the minutes field counted as hundreds of seconds
totalSecondsPerHundred(ds) == (ds[1] * 10 + ds[2]) * 100 + (ds[3] * 10 + ds[4])

\* the seconds field held to 59
totalSecondsClamped(ds) ==
    (ds[1] * 10 + ds[2]) * 60
        + (IF ds[3] * 10 + ds[4] > 59 THEN 59 ELSE ds[3] * 10 + ds[4])

\* totalSeconds
totalSeconds(ds) == (ds[1] * 10 + ds[2]) * 60 + (ds[3] * 10 + ds[4])

\* displayString: fmt.Sprintf("%d%d:%d%d", ...), a string as a sequence of
\* characters; %d of a value outside 0..9 takes more than one character
Dec(n) == IF n < 0 THEN <<"-">> \o (IF -n < 10 THEN <<-n>> ELSE <<(-n) \div 10, (-n) % 10>>)
          ELSE IF n < 10 THEN <<n>> ELSE <<n \div 10, n % 10>>
displayString(ds) == Dec(ds[1]) \o Dec(ds[2]) \o <<":">> \o Dec(ds[3]) \o Dec(ds[4])

\* ------------------------------------------------------- configuration
\* the process before InitOTel is called: the global providers and the
\* propagator are the defaults of the otel packages, nothing is running
NoOTel ==
    [pc |-> "idle", endpoint |-> <<>>, err |-> "none",
     tracerProvider |-> "default", propagator |-> "default",
     loggerProvider |-> "default", meterProvider |-> "default", running |-> {}]

\* a string is the sequence of its characters
EnvVars == {"MEGAWAVE_ENV", "MEGAWAVE_LOG_LEVEL", "MEGAWAVE_LOG_FILE",
            "MEGAWAVE_OTLP_ENDPOINT"}
FlagNames == {"env", "log-level", "log-file", "otlp-endpoint"}

\* a flag that is not on the command line
NotGiven == [given |-> FALSE, text |-> <<>>]
\* config before ParseConfig has returned; after, the one Config it returned
NotParsed == <<>>

\* the values a variable or a flag is given: empty, two that are
\* recognised (one of them in capitals) and one that is not
Texts(name) ==
    IF name \in {"MEGAWAVE_ENV", "env"}
    THEN {<<>>, <<"P", "R", "O", "D">>, <<"t", "e", "s", "t">>, <<"s", "t", "a", "g", "e">>}
    ELSE IF name \in {"MEGAWAVE_LOG_LEVEL", "log-level"}
    THEN {<<>>, <<"d", "e", "b", "u", "g">>, <<"W", "A", "R", "N">>, <<"t", "r", "a", "c", "e">>}
    ELSE IF name \in {"MEGAWAVE_LOG_FILE", "log-file"}
    THEN {<<>>, <<"a", ".", "l", "o", "g">>}
    ELSE {<<>>, <<"a", ":", "4", "3", "1", "8">>}

\* strings.ToLower, on the letters of the texts above
Capitals == <<"A", "D", "E", "G", "N", "O", "P", "R", "S", "T", "W">>
Smalls == <<"a", "d", "e", "g", "n", "o", "p", "r", "s", "t", "w">>

ToLowerChar(c) ==
    IF \E i \in DOMAIN Capitals : Capitals[i] = c
    THEN Smalls[CHOOSE i \in DOMAIN Capitals : Capitals[i] = c]
    ELSE c

ToLower(str) == [i \in DOMAIN str |-> ToLowerChar(str[i])]

\* parseEnvironment
parseEnvironment(str) ==
    IF ToLower(str) \in {<<"p", "r", "o", "d", "u", "c", "t", "i", "o", "n">>, <<"p", "r", "o", "d">>} THEN "production"
    ELSE IF ToLower(str) = <<"t", "e", "s", "t">> THEN "test"
    ELSE "development"

\* parseLogLevel: the names of slog.LevelDebug, LevelWarn, LevelError, LevelInfo
parseLogLevel(str) ==
    IF ToLower(str) = <<"d", "e", "b", "u", "g">> THEN "DEBUG"
    ELSE IF ToLower(str) \in {<<"w", "a", "r", "n">>, <<"w", "a", "r", "n", "i", "n", "g">>} THEN "WARN"
    ELSE IF ToLower(str) = <<"e", "r", "r", "o", "r">> THEN "ERROR"
    ELSE "INFO"

\* envOrDefault: if v := os.Getenv(key); v != "" { return v }; return defaultVal
envOrDefault(key, defaultVal) ==
    IF environ[key] # <<>> THEN environ[key] ELSE defaultVal

\* the flag that is not looked at
FlagValueNotParsed(name, defaultVal) == defaultVal

\* flag.String(name, defaultVal, usage) and flag.Parse(): the value on the
\* command line if the flag is there, else the default it was defined with
FlagValue(name, defaultVal) ==
    IF flags[name].given THEN flags[name].text ELSE defaultVal

\* the process is started with variable key set to text
Setenv(key, text) ==
    /\ config = NotParsed
    /\ environ' = [environ EXCEPT ![key] = text]
    /\ UNCHANGED <<shared, mu, pc, locals, ctxs, ghost, tty, flags, config, otel>>

\* the process is started with -name=text on its command line
GiveFlag(name, text) ==
    /\ config = NotParsed
    /\ flags' = [flags EXCEPT ![name] = [given |-> TRUE, text |-> text]]
    /\ UNCHANGED <<shared, mu, pc, locals, ctxs, ghost, tty, environ, config, otel>>

ParseConfig ==
    /\ config = NotParsed
    /\ config' = <<
          [Environment |->
               parseEnvironment(FlagValue("env", envOrDefault("MEGAWAVE_ENV", <<"d", "e", "v", "e", "l", "o", "p", "m", "e", "n", "t">>))),
           LogLevel |->
               parseLogLevel(FlagValue("log-level", envOrDefault("MEGAWAVE_LOG_LEVEL", <<"i", "n", "f", "o">>))),
           LogFile |->
               FlagValue("log-file", envOrDefault("MEGAWAVE_LOG_FILE", <<"m", "e", "g", "a", "w", "a", "v", "e", ".", "l", "o", "g">>)),
           OTLPEndpoint |->
               FlagValue("otlp-endpoint", environ["MEGAWAVE_OTLP_ENDPOINT"])] >>
    /\ UNCHANGED <<shared, mu, pc, locals, ctxs, ghost, tty, environ, flags, otel>>

\* ------------------------------------------------------------ New
Init ==
    /\ digits = Zero
    /\ digitCount = 0
    /\ isCooking = FALSE
    /\ mu = 0
    /\ pc = [t \in Threads |-> "idle"]
    /\ d = [t \in Threads |-> 0]
    /\ cooking = [t \in Threads |-> FALSE]
    /\ seconds = [t \in Threads |-> 0]
    /\ completed = [t \in Threads |-> FALSE]
    /\ display = [t \in Threads |-> <<>>]
    /\ ctxDone = [t \in Threads |-> FALSE]
    /\ cancelAt = [t \in Threads |-> "none"]
    /\ pressed = <<>>
    /\ nPressed = 0
    /\ emitted = [t \in Threads |-> <<>>]
    /\ typedAt = <<>>
    /\ stdin = <<>>
    /\ eof = FALSE
    /\ reader = "read"
    /\ buf = 0
    /\ keyChan = <<>>
    /\ errChan = <<>>
    /\ ctxCanceled = FALSE
    /\ result = "running"
    /\ environ = [k \in EnvVars |-> <<>>]
    /\ flags = [f \in FlagNames |-> NotGiven]
    /\ config = NotParsed
    /\ otel = NoOTel

\* ------------------------------------------------------ step helpers
\* m.mu.Lock(): blocks until the mutex is free
Acquire(t, from, to) ==
    /\ pc[t] = from
    /\ mu = 0
    /\ mu' = t
    /\ pc' = [pc EXCEPT ![t] = to]
    /\ UNCHANGED <<shared, locals, ctxs, ghost, tty, conf>>

\* logging, metric, span and print calls: no access to the guarded fields
IO(t, from, to) ==
    /\ pc[t] = from
    /\ pc' = [pc EXCEPT ![t] = to]
    /\ UNCHANGED <<shared, mu, locals, ctxs, ghost, tty, conf>>

\* the same, for a call that is the last use of the string in display
IODisplay(t, from, to) ==
    /\ pc[t] = from
    /\ pc' = [pc EXCEPT ![t] = to]
    /\ display' = [display EXCEPT ![t] = <<>>]
    /\ UNCHANGED <<shared, mu, d, cooking, seconds, completed, ctxs, ghost, tty, conf>>

\* return from the outermost call: the goroutine's frame is gone
Return(t, from) ==
    /\ pc[t] = from
    /\ pc' = [pc EXCEPT ![t] = "idle"]
    /\ d' = [d EXCEPT ![t] = 0]
    /\ cooking' = [cooking EXCEPT ![t] = FALSE]
    /\ seconds' = [seconds EXCEPT ![t] = 0]
    /\ completed' = [completed EXCEPT ![t] = FALSE]
    /\ display' = [display EXCEPT ![t] = <<>>]
    /\ ctxDone' = [ctxDone EXCEPT ![t] = FALSE]
    /\ cancelAt' = [cancelAt EXCEPT ![t] = "none"]
    /\ emitted' = [emitted EXCEPT ![t] = <<>>]
    /\ UNCHANGED <<shared, mu, pressed, nPressed, typedAt, tty, conf>>

\* ------------------------------------------------------------ PressDigit
\* ghost bookkeeping of a call PressDigit(x), kept where the calls are
\* made one after the other
Record(x) ==
    IF x \notin 0..9
    THEN UNCHANGED ghost
    ELSE /\ nPressed' = IF nPressed < MaxPressed THEN nPressed + 1 ELSE nPressed
         /\ pressed' = IF nPressed < 4 THEN Append(pressed, x) ELSE pressed
         /\ emitted' = emitted
         /\ typedAt' = typedAt

\* the call itself and the range check on d
PDCall(t, x) ==
    /\ pc[t] = "idle"
    /\ d' = [d EXCEPT ![t] = x]
    /\ pc' = [pc EXCEPT ![t] = IF InvalidDigit(x) THEN "pd_warn_invalid" ELSE "pd_ic_lock"]
    /\ UNCHANGED <<shared, mu, cooking, seconds, completed, display, ctxs>>

\* m.logger.Warn("invalid digit ignored"); return
PDWarnInvalid(t) == Return(t, "pd_warn_invalid")

\* cooking := m.IsCooking()
PDIsCookingLock(t) == Acquire(t, "pd_ic_lock", "pd_ic_cs")

PDIsCooking(t) ==
    /\ pc[t] = "pd_ic_cs"
    /\ mu = t
    /\ cooking' = [cooking EXCEPT ![t] = isCooking]
    /\ mu' = 0
    /\ pc' = [pc EXCEPT ![t] = "pd_log_pressed"]
    /\ UNCHANGED <<shared, d, seconds, completed, display, ctxs, ghost, tty, conf>>

\* the call that logs no "digit pressed" record
PDLogPressedSilent(t) ==
    IO(t, "pd_log_pressed", IF cooking[t] THEN "pd_warn_cooking" ELSE "pd_lock")

\* m.logger.Info("digit pressed", "digit", d, "cooking", cooking),
\* m.buttonPresses.Add, then: if cooking
PDLogPressed(t) ==
    /\ pc[t] = "pd_log_pressed"
    /\ emitted' = [emitted EXCEPT ![t] = Append(@, [digit |-> d[t], cooking |-> cooking[t]])]
    /\ pc' = [pc EXCEPT ![t] = IF cooking[t] THEN "pd_warn_cooking" ELSE "pd_lock"]
    /\ UNCHANGED <<shared, mu, locals, ctxs, pressed, nPressed, typedAt, tty, conf>>

\* m.logger.Warn("digit ignored while cooking"); return
PDWarnCooking(t) == Return(t, "pd_warn_cooking")

\* m.mu.Lock()
PDLock(t) == Acquire(t, "pd_lock", "pd_cs")

\* the capacity branch that warns before it unlocks
PDShiftWarnsLocked(t) ==
    /\ pc[t] = "pd_cs"
    /\ mu = t
    /\ IF AtCapacity(digitCount)
       THEN /\ pc' = [pc EXCEPT ![t] = "pd_warn_max"]
            /\ mu' = mu
            /\ UNCHANGED <<digits, digitCount, display>>
       ELSE /\ digits' = ShiftIn(digits, d[t])
            /\ digitCount' = digitCount + 1
            /\ display' = [display EXCEPT ![t] = displayString(digits')]
            /\ pc' = [pc EXCEPT ![t] = "pd_log_updated"]
            /\ mu' = 0
    /\ UNCHANGED <<isCooking, d, cooking, seconds, completed, ctxs, ghost, tty, conf>>

\* the critical section: capacity check, shift, m.mu.Unlock()
PDShift(t) ==
    /\ pc[t] = "pd_cs"
    /\ mu = t
    /\ IF AtCapacity(digitCount)
       THEN /\ pc' = [pc EXCEPT ![t] = "pd_warn_max"]
            /\ UNCHANGED <<digits, digitCount, display>>
       ELSE /\ digits' = ShiftIn(digits, d[t])
            /\ digitCount' = digitCount + 1
            /\ display' = [display EXCEPT ![t] = displayString(digits')]
            /\ pc' = [pc EXCEPT ![t] = "pd_log_updated"]
    /\ mu' = 0
    /\ UNCHANGED <<isCooking, d, cooking, seconds, completed, ctxs, ghost, tty, conf>>

\* m.logger.Warn("max digits reached, display not updated"); return
PDWarnMax(t) == Return(t, "pd_warn_max")

\* m.logger.Debug("display updated"); fmt.Print(display); return
PDLogUpdated(t) == Return(t, "pd_log_updated")

PressDigitStep(t) ==
    \/ PDWarnInvalid(t)
    \/ PDIsCookingLock(t)
    \/ PDIsCooking(t)
    \/ PDLogPressed(t)
    \/ PDWarnCooking(t)
    \/ PDLock(t)
    \/ PDShift(t)
    \/ PDWarnMax(t)
    \/ PDLogUpdated(t)

\* ------------------------------------------------------------ PressStart
\* the call; the context passed in may already be canceled
PSCall(t, c) ==
    /\ pc[t] = "idle"
    /\ pc' = [pc EXCEPT ![t] = "ps_ic_lock"]
    /\ ctxDone' = [ctxDone EXCEPT ![t] = c]
    /\ cancelAt' = [cancelAt EXCEPT ![t] = IF c THEN "early" ELSE "none"]
    /\ UNCHANGED <<shared, mu, locals>>

\* cooking := m.IsCooking()
PSIsCookingLock(t) == Acquire(t, "ps_ic_lock", "ps_ic_cs")

PSIsCooking(t) ==
    /\ pc[t] = "ps_ic_cs"
    /\ mu = t
    /\ cooking' = [cooking EXCEPT ![t] = isCooking]
    /\ mu' = 0
    /\ pc' = [pc EXCEPT ![t] = "ps_log_pressed"]
    /\ UNCHANGED <<shared, d, seconds, completed, display, ctxs, ghost, tty, conf>>

\* the start that does not look at cooking
PSLogPressedNoCheck(t) == IO(t, "ps_log_pressed", "ps_total_lock")

\* m.logger.Info("start pressed"), m.buttonPresses.Add, then: if cooking
PSLogPressed(t) ==
    IO(t, "ps_log_pressed", IF cooking[t] THEN "ps_warn_ignored" ELSE "ps_total_lock")

\* m.logger.WarnContext("start ignored, already cooking"); return
PSWarnIgnored(t) == Return(t, "ps_warn_ignored")

\* m.mu.Lock(); seconds := m.totalSeconds(); m.mu.Unlock(); if seconds == 0
PSTotalLock(t) == Acquire(t, "ps_total_lock", "ps_total_cs")

\* the start that does not reject a time of zero
PSTotalNoZeroCheck(t) ==
    /\ pc[t] = "ps_total_cs"
    /\ mu = t
    /\ seconds' = [seconds EXCEPT ![t] = totalSeconds(digits)]
    /\ mu' = 0
    /\ pc' = [pc EXCEPT ![t] = "ps_span"]
    /\ UNCHANGED <<shared, d, cooking, completed, display, ctxs, ghost, tty, conf>>

PSTotal(t) ==
    /\ pc[t] = "ps_total_cs"
    /\ mu = t
    /\ seconds' = [seconds EXCEPT ![t] = totalSeconds(digits)]
    /\ mu' = 0
    /\ pc' = [pc EXCEPT ![t] = IF seconds'[t] = 0 THEN "ps_warn_zero" ELSE "ps_span"]
    /\ UNCHANGED <<shared, d, cooking, completed, display, ctxs, ghost, tty, conf>>

\* m.logger.Warn("cannot start with zero time"); return
PSWarnZero(t) == Return(t, "ps_warn_zero")

\* ctx, span := m.tracer.Start(ctx, "cooking_session"); defer span.End()
PSSpan(t) == IO(t, "ps_span", "ps_disp1_lock")

\* m.Display(), the argument of attribute.String("initial_display", ...)
PSDisplay1Lock(t) == Acquire(t, "ps_disp1_lock", "ps_disp1_cs")

PSDisplay1(t) ==
    /\ pc[t] = "ps_disp1_cs"
    /\ mu = t
    /\ display' = [display EXCEPT ![t] = displayString(digits)]
    /\ mu' = 0
    /\ pc' = [pc EXCEPT ![t] = "ps_attrs"]
    /\ UNCHANGED <<shared, d, cooking, seconds, completed, ctxs, ghost, tty, conf>>

\* span.SetAttributes(...); m.cookingSessions.Add(ctx, 1)
PSAttrs(t) == IODisplay(t, "ps_attrs", "ps_disp2_lock")

\* m.Display(), the "display" argument of the "cooking started" record
PSDisplay2Lock(t) == Acquire(t, "ps_disp2_lock", "ps_disp2_cs")

PSDisplay2(t) ==
    /\ pc[t] = "ps_disp2_cs"
    /\ mu = t
    /\ display' = [display EXCEPT ![t] = displayString(digits)]
    /\ mu' = 0
    /\ pc' = [pc EXCEPT ![t] = "ps_log_started"]
    /\ UNCHANGED <<shared, d, cooking, seconds, completed, ctxs, ghost, tty, conf>>

\* m.logger.InfoContext(ctx, "cooking started", ...)
PSLogStarted(t) == IODisplay(t, "ps_log_started", "ps_set_lock")

\* m.mu.Lock(); m.isCooking = true; m.mu.Unlock(); then countdown is called
PSSetLock(t) == Acquire(t, "ps_set_lock", "ps_set_cs")

PSSetCooking(t) ==
    /\ pc[t] = "ps_set_cs"
    /\ mu = t
    /\ isCooking' = TRUE
    /\ mu' = 0
    /\ pc' = [pc EXCEPT ![t] = "cd_loop"]
    /\ UNCHANGED <<digits, digitCount, locals, ctxs, ghost, tty, conf>>

\* m.mu.Lock(); m.isCooking = false; m.digits = [4]int{0, 0, 0, 0};
\* m.digitCount = 0; m.mu.Unlock(); then: if completed
PSResetLock(t) == Acquire(t, "ps_reset_lock", "ps_reset_cs")

ResetDigits == Zero

\* the reset that forgets digitCount
ResetCountKept == digitCount

ResetCount == 0

\* the cleanup skipped on the canceled path
PSResetOnlyIfCompleted(t) ==
    /\ pc[t] = "ps_reset_cs"
    /\ mu = t
    /\ IF completed[t]
       THEN isCooking' = FALSE /\ digits' = Zero /\ digitCount' = 0
       ELSE UNCHANGED shared
    /\ mu' = 0
    /\ pc' = [pc EXCEPT ![t] = IF completed[t] THEN "ps_log_complete" ELSE "ps_log_canceled"]
    /\ UNCHANGED <<locals, ctxs, ghost, tty, conf>>

PSReset(t) ==
    /\ pc[t] = "ps_reset_cs"
    /\ mu = t
    /\ isCooking' = FALSE
    /\ digits' = ResetDigits
    /\ digitCount' = ResetCount
    /\ mu' = 0
    /\ pc' = [pc EXCEPT ![t] = IF completed[t] THEN "ps_log_complete" ELSE "ps_log_canceled"]
    /\ UNCHANGED <<locals, ctxs, ghost, tty, conf>>

\* m.logger.InfoContext(ctx, "cooking complete"); span.End(); return
PSLogComplete(t) == Return(t, "ps_log_complete")

\* m.logger.InfoContext(ctx, "cooking canceled"); span.End(); return
PSLogCanceled(t) == Return(t, "ps_log_canceled")

\* ------------------------------------------------------------ countdown
\* mins, secs and overflowMins of one pass of the loop, from seconds
\* the overflow counted from minute 100
overflowMinsFrom100(s) == (s \div 60) - 100

overflowMins(s) == (s \div 60) - 99

\* the fold of minute 100 into the seconds field left out
TickMinsNoFold(s) == s \div 60

TickMins(s) == IF overflowMins(s) >= 1 THEN 99 ELSE s \div 60

\* the seconds field of minute 100 left as it is
TickSecsNoFold(s) == s % 60

\* the seconds field clamped to 99 from minute 100 on
TickSecsClamped(s) == IF overflowMins(s) >= 1 THEN 99 ELSE s % 60

TickSecs(s) ==
    IF overflowMins(s) = 1 THEN (s % 60) + overflowMins(s) * 60
    ELSE IF overflowMins(s) > 1 THEN 99
    ELSE s % 60

TickDigits(s) ==
    <<TickMins(s) \div 10, TickMins(s) % 10, TickSecs(s) \div 10, TickSecs(s) % 10>>

\* the loop that tests after its body
CDLoopBodyFirst(t) ==
    IO(t, "cd_loop", IF seconds[t] >= 0 THEN "cd_tick_lock" ELSE "cd_final_lock")

\* for seconds > 0 { mins, secs, overflowMins ...
CDLoop(t) ==
    IO(t, "cd_loop", IF seconds[t] > 0
                     THEN (IF overflowMins(seconds[t]) > 1 THEN "cd_warn_overflow"
                                                           ELSE "cd_tick_lock")
                     ELSE "cd_final_lock")

\* m.logger.WarnContext(ctx, "unexpected overflowMins > 1")
CDWarnOverflow(t) == IO(t, "cd_warn_overflow", "cd_tick_lock")

\* m.mu.Lock(); m.digits[0..3] = ...; display := m.displayString(); m.mu.Unlock()
CDTickLock(t) == Acquire(t, "cd_tick_lock", "cd_tick_cs")

CDTick(t) ==
    /\ pc[t] = "cd_tick_cs"
    /\ mu = t
    /\ digits' = TickDigits(seconds[t])
    /\ display' = [display EXCEPT ![t] = displayString(digits')]
    /\ mu' = 0
    /\ pc' = [pc EXCEPT ![t] = "cd_tick_io"]
    /\ UNCHANGED <<digitCount, isCooking, d, cooking, seconds, completed, ctxs, ghost, tty, conf>>

\* m.logger.DebugContext(ctx, "tick", ...); fmt.Print(display)
CDTickIO(t) == IODisplay(t, "cd_tick_io", "cd_wait")

\* the canceled return that clears the display on its way out
CDReturnFalseClears(t, to) ==
    /\ pc[t] = "cd_wait"
    /\ ctxDone[t]
    /\ completed' = [completed EXCEPT ![t] = FALSE]
    /\ seconds' = [seconds EXCEPT ![t] = 0]
    /\ pc' = [pc EXCEPT ![t] = to]
    /\ digits' = Zero
    /\ UNCHANGED <<digitCount, isCooking, mu, d, cooking, display, ctxs, ghost, tty, conf>>

\* select: case <-ctx.Done(): return false (the frame of countdown, with
\* its seconds, is gone); to is where the caller goes on
CDReturnFalse(t, to) ==
    /\ pc[t] = "cd_wait"
    /\ ctxDone[t]
    /\ completed' = [completed EXCEPT ![t] = FALSE]
    /\ seconds' = [seconds EXCEPT ![t] = 0]
    /\ pc' = [pc EXCEPT ![t] = to]
    /\ UNCHANGED <<shared, mu, d, cooking, display, ctxs, ghost, tty, conf>>

\* countdown returns false to PressStart: completed := m.countdown(ctx, seconds)
CDCanceled(t) == CDReturnFalse(t, "ps_reset_lock")

\* the timer branch taken although ctx.Done() is closed
CDTimerIgnoresCtx(t) ==
    /\ pc[t] = "cd_wait"
    /\ seconds' = [seconds EXCEPT ![t] = seconds[t] - 1]
    /\ pc' = [pc EXCEPT ![t] = "cd_loop"]
    /\ UNCHANGED <<shared, mu, d, cooking, completed, display, ctxs, ghost, tty, conf>>

\* select: case <-time.After(1 * time.Second): seconds--
\* (a context already canceled is ready first: the timer was only just made)
CDTimer(t) ==
    /\ pc[t] = "cd_wait"
    /\ ~ctxDone[t]
    /\ seconds' = [seconds EXCEPT ![t] = seconds[t] - 1]
    /\ pc' = [pc EXCEPT ![t] = "cd_loop"]
    /\ UNCHANGED <<shared, mu, d, cooking, completed, display, ctxs, ghost, tty, conf>>

\* m.mu.Lock(); m.digits = [4]int{0, 0, 0, 0}; display := ...; m.mu.Unlock()
CDFinalLock(t) == Acquire(t, "cd_final_lock", "cd_final_cs")

CDFinal(t) ==
    /\ pc[t] = "cd_final_cs"
    /\ mu = t
    /\ digits' = Zero
    /\ display' = [display EXCEPT ![t] = displayString(digits')]
    /\ mu' = 0
    /\ pc' = [pc EXCEPT ![t] = "cd_final_io"]
    /\ UNCHANGED <<digitCount, isCooking, d, cooking, seconds, completed, ctxs, ghost, tty, conf>>

\* fmt.Print(display); m.logger.DebugContext(ctx, "tick", ...); return true;
\* to is where the caller goes on
CDReturnTrue(t, to) ==
    /\ pc[t] = "cd_final_io"
    /\ completed' = [completed EXCEPT ![t] = TRUE]
    /\ display' = [display EXCEPT ![t] = <<>>]
    /\ pc' = [pc EXCEPT ![t] = to]
    /\ UNCHANGED <<shared, mu, d, cooking, seconds, ctxs, ghost, tty, conf>>

\* countdown returns true to PressStart
CDFinalIO(t) == CDReturnTrue(t, "ps_reset_lock")

\* ------------------------------------------------------------ context
\* pc values of PressStart before countdown is called, of countdown, and of
\* PressStart after countdown returned
PSBefore == {"ps_ic_lock", "ps_ic_cs", "ps_log_pressed", "ps_warn_ignored",
             "ps_total_lock", "ps_total_cs", "ps_warn_zero", "ps_span",
             "ps_disp1_lock", "ps_disp1_cs", "ps_attrs",
             "ps_disp2_lock", "ps_disp2_cs", "ps_log_started", "ps_set_lock",
             "ps_set_cs"}
InCountdown == {"cd_loop", "cd_warn_overflow", "cd_tick_lock", "cd_tick_cs",
                "cd_tick_io", "cd_wait", "cd_final_lock", "cd_final_cs",
                "cd_final_io"}
PSAfter == {"ps_reset_lock", "ps_reset_cs", "ps_log_complete", "ps_log_canceled"}

\* ghost: when cancel() was called: "early", before the call or while a wait
\* of the countdown was still ahead; "final", in countdown after its last wait
Phase(t) ==
    IF pc[t] \in InCountdown /\ seconds[t] = 0 THEN "final" ELSE "early"

\* cancel() of the context a running PressStart was given (main.go: Ctrl-C;
\* the tests: cancel()), up to the return of countdown, the only reader of
\* ctx.Done()
Cancel(t) ==
    /\ pc[t] \in PSBefore \cup InCountdown
    /\ ~ctxDone[t]
    /\ ctxDone' = [ctxDone EXCEPT ![t] = TRUE]
    /\ cancelAt' = [cancelAt EXCEPT ![t] = Phase(t)]
    /\ UNCHANGED <<shared, mu, pc, locals, ghost, tty, conf>>

PressStartStep(t) ==
    \/ PSIsCookingLock(t)
    \/ PSIsCooking(t)
    \/ PSLogPressed(t)
    \/ PSWarnIgnored(t)
    \/ PSTotalLock(t)
    \/ PSTotal(t)
    \/ PSWarnZero(t)
    \/ PSSpan(t)
    \/ PSDisplay1Lock(t)
    \/ PSDisplay1(t)
    \/ PSAttrs(t)
    \/ PSDisplay2Lock(t)
    \/ PSDisplay2(t)
    \/ PSLogStarted(t)
    \/ PSSetLock(t)
    \/ PSSetCooking(t)
    \/ PSResetLock(t)
    \/ PSReset(t)
    \/ PSLogComplete(t)
    \/ PSLogCanceled(t)

\* the steps of countdown but the timer
CountdownWork(t) ==
    \/ CDLoop(t)
    \/ CDWarnOverflow(t)
    \/ CDTickLock(t)
    \/ CDTick(t)
    \/ CDTickIO(t)
    \/ CDCanceled(t)
    \/ CDFinalLock(t)
    \/ CDFinal(t)
    \/ CDFinalIO(t)

\* Bound: where goroutines run concurrently, a wait with more than MaxStart
\* seconds left is followed only to the cancellation of its context
CountdownStep(t) ==
    \/ CountdownWork(t)
    \/ seconds[t] <= MaxStart /\ CDTimer(t)

\* a valid key is pressed only if the display it gives stays within MaxStart
Pressable(x) ==
    x \notin 0..9 \/ totalSeconds(<<digits[2], digits[3], digits[4], x>>) <= MaxStart

Next ==
    \/ \E t \in Threads, x \in DigitArgs :
          Pressable(x) /\ PDCall(t, x) /\ UNCHANGED <<ghost, tty, conf>>
    \/ \E t \in Threads : PressDigitStep(t)
    \/ \E t \in Threads, c \in BOOLEAN : PSCall(t, c) /\ UNCHANGED <<ghost, tty, conf>>
    \/ \E t \in Threads : PressStartStep(t)
    \/ \E t \in Threads : CountdownStep(t)
    \/ \E t \in Threads : Cancel(t)

Spec == Init /\ [][Next]_vars

\* ------------------------------------------------- scheduling
\* a goroutine inside a call keeps running: the Go scheduler runs every
\* runnable goroutine, sync.Mutex hands the lock to a waiter that has
\* waited long (starvation mode), and the runtime fires the one-second timer
Step(t) == PressDigitStep(t) \/ PressStartStep(t) \/ CountdownStep(t)

\* a wait that the bound MaxStart does not follow ends by cancellation
Deadline(t) == pc[t] = "cd_wait" /\ seconds[t] > MaxStart /\ Cancel(t)

\* both goroutines entering the time and pressing START
NextCook ==
    \/ \E t \in Threads : Pressable(MaxStart) /\ PDCall(t, MaxStart) /\ UNCHANGED <<ghost, tty, conf>>
    \/ \E t \in Threads : PressDigitStep(t)
    \/ \E t \in Threads, c \in BOOLEAN : PSCall(t, c) /\ UNCHANGED <<ghost, tty, conf>>
    \/ \E t \in Threads : PressStartStep(t)
    \/ \E t \in Threads : CountdownStep(t)
    \/ \E t \in Threads : Cancel(t)

FairSpec ==
    /\ Init /\ [][NextCook]_vars
    /\ \A t \in Threads : SF_vars(Step(t)) /\ WF_vars(Deadline(t))

\* ------------------------------------------------- digit entry, one caller
\* one goroutine pressing any keys on a fresh oven, as the unit tests do
EntryCall == \E x \in EntryArgs : PDCall(1, x) /\ Record(x) /\ UNCHANGED <<tty, conf>>

NextEntry ==
    \/ EntryCall
    \/ PressDigitStep(1)

SpecEntry == Init /\ [][NextEntry]_vars

\* ------------------------------------------------- word by word
\* The critical sections that write m.digits and the body of Display, one
\* memory access per step: what a goroutine that ignored the mutex could
\* see of them.  Everywhere else a critical section is one step, because
\* every access to the fields is made with the mutex held.

\* one of the four stores of a critical section: m.digits[i-1] = v
StoreDigit(t, at, i, v) ==
    /\ pc[t] = at[i]
    /\ digits' = [digits EXCEPT ![i] = v]
    /\ pc' = [pc EXCEPT ![t] = at[i + 1]]
    /\ UNCHANGED <<digitCount, isCooking, mu, locals, ctxs, ghost, tty, conf>>

\* PressDigit: if m.digitCount >= 4 { m.mu.Unlock(); ... }
PDCapacity(t) ==
    /\ pc[t] = "pd_cs"
    /\ IF AtCapacity(digitCount)
       THEN mu' = 0 /\ pc' = [pc EXCEPT ![t] = "pd_warn_max"]
       ELSE mu' = mu /\ pc' = [pc EXCEPT ![t] = "pd_w1"]
    /\ UNCHANGED <<shared, locals, ctxs, ghost, tty, conf>>

PDAt == <<"pd_w1", "pd_w2", "pd_w3", "pd_w4", "pd_w5">>

\* m.digits[0] = m.digits[1]; ...; m.digits[3] = d
PDStore(t) ==
    \E i \in 1..4 : StoreDigit(t, PDAt, i, IF i < 4 THEN digits[i + 1] ELSE d[t])

\* m.digitCount++; display := m.displayString(); m.mu.Unlock()
PDCount(t) ==
    /\ pc[t] = "pd_w5"
    /\ digitCount' = digitCount + 1
    /\ display' = [display EXCEPT ![t] = displayString(digits)]
    /\ mu' = 0
    /\ pc' = [pc EXCEPT ![t] = "pd_log_updated"]
    /\ UNCHANGED <<digits, isCooking, d, cooking, seconds, completed, ctxs, ghost, tty, conf>>

CDTickAt == <<"cd_tick_cs", "cd_tick_w2", "cd_tick_w3", "cd_tick_w4", "cd_tick_w5">>

\* countdown: m.digits[0] = mins / 10; ...; m.digits[3] = secs % 10
CDTickStore(t) ==
    \E i \in 1..4 : StoreDigit(t, CDTickAt, i, TickDigits(seconds[t])[i])

\* display := m.displayString(); m.mu.Unlock()
CDTickString(t) ==
    /\ pc[t] = "cd_tick_w5"
    /\ display' = [display EXCEPT ![t] = displayString(digits)]
    /\ mu' = 0
    /\ pc' = [pc EXCEPT ![t] = "cd_tick_io"]
    /\ UNCHANGED <<shared, d, cooking, seconds, completed, ctxs, ghost, tty, conf>>

CDFinalAt == <<"cd_final_cs", "cd_final_w2", "cd_final_w3", "cd_final_w4", "cd_final_w5">>

\* countdown: m.digits = [4]int{0, 0, 0, 0}, an array of four words
CDFinalStore(t) ==
    \E i \in 1..4 : StoreDigit(t, CDFinalAt, i, Zero[i])

CDFinalString(t) ==
    /\ pc[t] = "cd_final_w5"
    /\ display' = [display EXCEPT ![t] = displayString(digits)]
    /\ mu' = 0
    /\ pc' = [pc EXCEPT ![t] = "cd_final_io"]
    /\ UNCHANGED <<shared, d, cooking, seconds, completed, ctxs, ghost, tty, conf>>

\* the reset in two critical sections: the flag is cleared and the mutex
\* released before the digits are reset
PSResetFlagUnlocks(t) ==
    /\ pc[t] = "ps_reset_cs"
    /\ isCooking' = FALSE
    /\ mu' = 0
    /\ pc' = [pc EXCEPT ![t] = "ps_reset_w1"]
    /\ UNCHANGED <<digits, digitCount, locals, ctxs, ghost, tty, conf>>

\* PressStart: m.isCooking = false
PSResetFlag(t) ==
    /\ pc[t] = "ps_reset_cs"
    /\ isCooking' = FALSE
    /\ pc' = [pc EXCEPT ![t] = "ps_reset_w1"]
    /\ UNCHANGED <<digits, digitCount, mu, locals, ctxs, ghost, tty, conf>>

PSResetAt == <<"ps_reset_w1", "ps_reset_w2", "ps_reset_w3", "ps_reset_w4", "ps_reset_w5">>

\* m.digits = [4]int{0, 0, 0, 0}
PSResetStore(t) ==
    \E i \in 1..4 : StoreDigit(t, PSResetAt, i, ResetDigits[i])

\* m.digitCount = 0; m.mu.Unlock(); if completed
PSResetCount(t) ==
    /\ pc[t] = "ps_reset_w5"
    /\ digitCount' = ResetCount
    /\ mu' = 0
    /\ pc' = [pc EXCEPT ![t] = IF completed[t] THEN "ps_log_complete" ELSE "ps_log_canceled"]
    /\ UNCHANGED <<digits, isCooking, locals, ctxs, ghost, tty, conf>>

\* the critical sections above, which take the place of the one-step ones
WordCS == {"pd_cs", "cd_tick_cs", "cd_final_cs", "ps_reset_cs"}

WriteWords(t) ==
    \/ PDCapacity(t)
    \/ PDStore(t)
    \/ PDCount(t)
    \/ CDTickStore(t)
    \/ CDTickString(t)
    \/ CDFinalStore(t)
    \/ CDFinalString(t)
    \/ PSResetFlag(t)
    \/ PSResetStore(t)
    \/ PSResetCount(t)

\* a call of Display() by a goroutine of its own
RDCall(t) == IO(t, "idle", "rd_lock")

\* the Display that does not take the mutex
RDLockNoWait(t) == IO(t, "rd_lock", "rd_w1")

\* m.mu.Lock(); defer m.mu.Unlock()
RDLock(t) == Acquire(t, "rd_lock", "rd_w1")

RDAt == <<"rd_w1", "rd_w2", "rd_w3", "rd_w4", "rd_done">>

\* displayString: the four arguments of fmt.Sprintf, read left to right
RDLoad(t) ==
    \E i \in 1..4 :
        /\ pc[t] = RDAt[i]
        /\ display' = [display EXCEPT
                          ![t] = @ \o Dec(digits[i]) \o (IF i = 2 THEN <<":">> ELSE <<>>)]
        /\ pc' = [pc EXCEPT ![t] = RDAt[i + 1]]
        /\ UNCHANGED <<shared, mu, d, cooking, seconds, completed, ctxs, ghost, tty, conf>>

\* the deferred m.mu.Unlock(), after the result has been made
RDUnlock(t) ==
    /\ pc[t] = "rd_done"
    /\ mu' = 0
    /\ pc' = [pc EXCEPT ![t] = "rd_ret"]
    /\ UNCHANGED <<shared, locals, ctxs, ghost, tty, conf>>

RDReturn(t) == Return(t, "rd_ret")

\* a call of IsCooking() by a goroutine of its own
ICCall(t) == IO(t, "idle", "ic_lock")

ICLock(t) == Acquire(t, "ic_lock", "ic_cs")

\* return m.isCooking
ICLoad(t) ==
    /\ pc[t] = "ic_cs"
    /\ cooking' = [cooking EXCEPT ![t] = isCooking]
    /\ pc' = [pc EXCEPT ![t] = "ic_done"]
    /\ UNCHANGED <<shared, mu, d, seconds, completed, display, ctxs, ghost, tty, conf>>

ICUnlock(t) ==
    /\ pc[t] = "ic_done"
    /\ mu' = 0
    /\ pc' = [pc EXCEPT ![t] = "ic_ret"]
    /\ UNCHANGED <<shared, locals, ctxs, ghost, tty, conf>>

ICReturn(t) == Return(t, "ic_ret")

ReadWords(t) ==
    \/ RDCall(t)
    \/ RDLock(t)
    \/ RDLoad(t)
    \/ RDUnlock(t)
    \/ RDReturn(t)
    \/ ICCall(t)
    \/ ICLock(t)
    \/ ICLoad(t)
    \/ ICUnlock(t)
    \/ ICReturn(t)

\* the keys pressed where the stores are followed one by one: with 6, a
\* shift, a tick (00:60 is shown as 01:00) and a reset each change the display
WordArgs == {0, MaxStart, 6}

\* goroutine 1 enters a time and cooks it, goroutine 2 calls Display and
\* IsCooking, as TestIntegrationCountdownConcurrent and
\* TestIntegrationIsCookingConcurrent do
NextWords ==
    \/ \E x \in WordArgs : PDCall(1, x) /\ UNCHANGED <<ghost, tty, conf>>
    \/ \E c \in BOOLEAN : PSCall(1, c) /\ UNCHANGED <<ghost, tty, conf>>
    \/ pc[1] \notin WordCS /\ Step(1)
    \/ WriteWords(1)
    \/ Cancel(1)
    \/ ReadWords(2)

SpecWords == Init /\ [][NextWords]_vars

\* pc values at which the next step of a goroutine is a logging, print,
\* metric or span call
Logging ==
    {"pd_warn_invalid", "pd_log_pressed", "pd_warn_cooking", "pd_warn_max",
     "pd_log_updated", "ps_log_pressed", "ps_warn_ignored", "ps_warn_zero",
     "ps_span", "ps_attrs", "ps_log_started", "ps_log_complete", "ps_log_canceled",
     "cd_warn_overflow", "cd_tick_io", "cd_final_io"}

\* those of them that write out the display
LoggingDisplay ==
    {"pd_log_updated", "ps_attrs", "ps_log_started", "cd_tick_io", "cd_final_io"}

\* pc values at which a goroutine is between m.mu.Lock() and m.mu.Unlock()
Holding ==
    {"pd_ic_cs", "pd_cs", "ps_ic_cs", "ps_total_cs", "ps_disp1_cs", "ps_disp2_cs",
     "ps_set_cs", "ps_reset_cs", "cd_tick_cs", "cd_final_cs",
     "pd_w1", "pd_w2", "pd_w3", "pd_w4", "pd_w5",
     "cd_tick_w2", "cd_tick_w3", "cd_tick_w4", "cd_tick_w5",
     "cd_final_w2", "cd_final_w3", "cd_final_w4", "cd_final_w5",
     "ps_reset_w1", "ps_reset_w2", "ps_reset_w3", "ps_reset_w4", "ps_reset_w5",
     "rd_w1", "rd_w2", "rd_w3", "rd_w4", "rd_done", "ic_cs", "ic_done"}

\* ------------------------------------------------- digit entry, two callers
\* the keys pressed where goroutines enter digits concurrently
KeyArgs == {1, 2}

\* ghost bookkeeping of a call PressDigit(x) where every call is kept
\* Bound: at most MaxPressed calls are made
RecordAll(x) ==
    /\ nPressed < MaxPressed
    /\ nPressed' = nPressed + 1
    /\ pressed' = Append(pressed, x)
    /\ emitted' = emitted
    /\ typedAt' = typedAt

\* the goroutines pressing keys on a fresh oven at the same time, as
\* TestIntegrationDisplayConcurrent does
NextKeys ==
    \/ \E t \in Threads, x \in KeyArgs : PDCall(t, x) /\ RecordAll(x) /\ UNCHANGED <<tty, conf>>
    \/ \E t \in Threads : PressDigitStep(t)

SpecKeys == Init /\ [][NextKeys]_vars

\* ------------------------------------------------- one cook cycle, one caller
\* the ten keys, pressed where one goroutine enters a time and cooks it through
CookArgs == 0..9

\* one goroutine entering any time up to 99:99 and pressing START, every
\* one-second wait of the countdown followed
NextCycle ==
    \/ \E x \in CookArgs : PDCall(1, x) /\ UNCHANGED <<ghost, tty, conf>>
    \/ PressDigitStep(1)
    \/ \E c \in BOOLEAN : PSCall(1, c) /\ UNCHANGED <<ghost, tty, conf>>
    \/ PressStartStep(1)
    \/ CountdownWork(1)
    \/ CDTimer(1)
    \/ Cancel(1)

SpecCycle == Init /\ [][NextCycle]_vars

\* ------------------------------------------------- countdown called directly
\* the seconds the tests of the package call m.countdown(ctx, seconds) with,
\* and the last second of minute 100
DirectArgs == {0, 1, 10, 6000, 6059, 12000}

\* the call m.countdown(ctx, s); the context may already be canceled
CDCall(t, s, c) ==
    /\ pc[t] = "idle"
    /\ seconds' = [seconds EXCEPT ![t] = s]
    /\ pc' = [pc EXCEPT ![t] = "cd_loop"]
    /\ ctxDone' = [ctxDone EXCEPT ![t] = c]
    /\ cancelAt' = [cancelAt EXCEPT ![t] = IF c THEN "early" ELSE "none"]
    /\ UNCHANGED <<shared, mu, d, cooking, completed, display, ghost, tty, conf>>

\* countdown returns to the test that called it: result := m.countdown(...)
CDCanceledDirect(t) == CDReturnFalse(t, "cd_ret")

CDFinalIODirect(t) == CDReturnTrue(t, "cd_ret")

\* the test has looked at result and at the fields
CDResultSeen(t) == Return(t, "cd_ret")

\* one goroutine entering digits and calling countdown, as the tests of the
\* package do, every one-second wait followed
NextDirect ==
    \/ \E x \in KeyArgs : PDCall(1, x) /\ UNCHANGED <<ghost, tty, conf>>
    \/ PressDigitStep(1)
    \/ \E s \in DirectArgs, c \in BOOLEAN : CDCall(1, s, c)
    \/ CDLoop(1)
    \/ CDWarnOverflow(1)
    \/ CDTickLock(1)
    \/ CDTick(1)
    \/ CDTickIO(1)
    \/ CDTimer(1)
    \/ CDCanceledDirect(1)
    \/ CDFinalLock(1)
    \/ CDFinal(1)
    \/ CDFinalIODirect(1)
    \/ CDResultSeen(1)
    \/ Cancel(1)

SpecDirect == Init /\ [][NextDirect]_vars

\* ------------------------------------------------- START while keys are pressed
\* goroutine 1 enters digits and presses START while goroutine 2 presses
\* digits
NextStartKeys ==
    \/ \E t \in Threads, x \in KeyArgs : PDCall(t, x) /\ UNCHANGED <<ghost, tty, conf>>
    \/ \E t \in Threads : PressDigitStep(t)
    \/ \E c \in BOOLEAN : PSCall(1, c) /\ UNCHANGED <<ghost, tty, conf>>
    \/ PressStartStep(1)
    \/ CountdownStep(1)
    \/ Cancel(1)

SpecStartKeys == Init /\ [][NextStartKeys]_vars

\* ------------------------------------------------- runInteractive
\* the bytes of the keys (raw mode): Ctrl-C, Enter, and '0'
CtrlC == 3
CarriageReturn == 13
LineFeed == 10
Digit0 == 48

\* keyChan := make(chan byte, 1); errChan := make(chan error, 1)
KeyChanCap == 1

\* Bound: at most MaxTyped typed bytes wait to be read
MaxTyped == 2

\* the keys typed: Ctrl-C, Enter, the digit MaxStart and a key without function
TypedKeys == {CtrlC, CarriageReturn, Digit0 + MaxStart, 120}

\* case char >= '0' && char <= '9'
IsDigitKey(char) == char >= Digit0 /\ char <= Digit0 + 9

\* the main goroutine is inside countdown and isCooking is set
CountdownRunning == isCooking /\ pc[1] \in InCountdown

\* the user types a key
Type(b) ==
    /\ ~eof
    /\ Len(stdin) < MaxTyped
    /\ stdin' = Append(stdin, b)
    /\ typedAt' = Append(typedAt, IsDigitKey(b) /\ CountdownRunning)
    /\ UNCHANGED <<shared, mu, pc, locals, ctxs, pressed, nPressed, emitted, eof,
                   reader, buf, keyChan, errChan, ctxCanceled, result, conf>>

\* the terminal is closed: Read returns an error once the typed bytes are read
Hangup ==
    /\ ~eof
    /\ eof' = TRUE
    /\ UNCHANGED <<shared, mu, pc, locals, ctxs, ghost, stdin, reader, buf, keyChan,
                   errChan, ctxCanceled, result, conf>>

\* what canceling ctx does to the PressStart call the main loop is in, if any
CancelCtx ==
    /\ ctxCanceled' = TRUE
    /\ IF pc[1] \in PSBefore \cup InCountdown /\ ~ctxDone[1]
       THEN /\ ctxDone' = [ctxDone EXCEPT ![1] = TRUE]
            /\ cancelAt' = [cancelAt EXCEPT ![1] = Phase(1)]
       ELSE UNCHANGED ctxs

\* main: signal.NotifyContext cancels ctx on SIGINT or SIGTERM
Signal ==
    /\ ~ctxCanceled
    /\ CancelCtx
    /\ UNCHANGED <<shared, mu, pc, locals, ghost, stdin, eof, reader, buf, keyChan,
                   errChan, result, conf>>

\* the reading goroutine: n, err := os.Stdin.Read(buf) with n > 0
ReaderRead ==
    /\ reader = "read"
    /\ stdin # <<>>
    /\ buf' = Head(stdin)
    /\ stdin' = Tail(stdin)
    /\ reader' = "check"
    /\ UNCHANGED <<shared, mu, pc, locals, ctxs, ghost, eof, keyChan, errChan,
                   ctxCanceled, result, conf>>

\* os.Stdin.Read fails: errChan <- err; return (errChan has room for it)
ReaderError ==
    /\ reader = "read"
    /\ stdin = <<>>
    /\ eof
    /\ errChan' = Append(errChan, "EOF")
    /\ reader' = "done"
    /\ UNCHANGED <<shared, mu, pc, locals, ctxs, ghost, stdin, eof, buf, keyChan,
                   ctxCanceled, result, conf>>

\* if buf[0] == 3 { cancel() }
ReaderCheck ==
    /\ reader = "check"
    /\ IF buf = CtrlC THEN CancelCtx ELSE UNCHANGED <<ctxs, ctxCanceled>>
    /\ reader' = "send"
    /\ UNCHANGED <<shared, mu, pc, locals, ghost, stdin, eof, buf, keyChan, errChan,
                   result, conf>>

\* keyChan <- buf[0]: blocks while the channel is full
ReaderSend ==
    /\ reader = "send"
    /\ Len(keyChan) < KeyChanCap
    /\ keyChan' = Append(keyChan, buf)
    /\ reader' = "read"
    /\ UNCHANGED <<shared, mu, pc, locals, ctxs, ghost, stdin, eof, buf, errChan,
                   ctxCanceled, result, conf>>

\* the main loop is at its select
AtSelect == pc[1] = "idle" /\ result = "running"

\* runInteractive returns err
Returns(err) ==
    /\ result' = err
    /\ UNCHANGED <<shared, mu, pc, locals, ctxs, ghost, stdin, eof, reader, buf,
                   keyChan, errChan, ctxCanceled, conf>>

\* the select without its ctx.Done() case
MainWithoutCtxDone == AtSelect /\ FALSE /\ Returns("context.Canceled")

\* case <-ctx.Done(): return ctx.Err()
MainCtxDone == AtSelect /\ ctxCanceled /\ Returns("context.Canceled")

\* case err := <-errChan: return err
MainErr == AtSelect /\ errChan # <<>> /\ Returns(Head(errChan))

\* case char := <-keyChan, and the switch on char
MainKey ==
    /\ AtSelect
    /\ keyChan # <<>>
    /\ keyChan' = Tail(keyChan)
    /\ typedAt' = Tail(typedAt)
    /\ UNCHANGED <<pressed, nPressed, emitted>>
    /\ LET char == Head(keyChan) IN
         IF IsDigitKey(char)
         THEN /\ PDCall(1, char - Digit0)
              /\ UNCHANGED <<stdin, eof, reader, buf, errChan, ctxCanceled, result, conf>>
         ELSE IF char = CarriageReturn \/ char = LineFeed
         THEN /\ PSCall(1, ctxCanceled)
              /\ UNCHANGED <<stdin, eof, reader, buf, errChan, ctxCanceled, result, conf>>
         ELSE /\ result' = IF char = CtrlC THEN "context.Canceled" ELSE result
              /\ UNCHANGED <<shared, mu, pc, locals, ctxs, stdin, eof, reader,
                             buf, errChan, ctxCanceled, conf>>

\* the program: the user at the keys, the reading goroutine, and the main
\* goroutine in its loop or in the call the loop made
NextTTY ==
    \/ \E b \in TypedKeys : Type(b)
    \/ Hangup
    \/ Signal
    \/ ReaderRead
    \/ ReaderError
    \/ ReaderCheck
    \/ ReaderSend
    \/ MainCtxDone
    \/ MainErr
    \/ MainKey
    \/ Step(1)

SpecTTY == Init /\ [][NextTTY]_vars

\* main: if err := runInteractive(...); err != nil { if err != context.Canceled
\* { log.Fatal(err) } }; fmt.Println("\nGoodbye!")
mainExit ==
    IF result = "running" THEN "running"
    ELSE IF result = "context.Canceled" THEN "Goodbye!"
    ELSE "log.Fatal"

\* the program with a user who types a key when the one before has been read
NextQuit ==
    \/ \E b \in TypedKeys : stdin = <<>> /\ Type(b)
    \/ Hangup
    \/ Signal
    \/ ReaderRead
    \/ ReaderError
    \/ ReaderCheck
    \/ ReaderSend
    \/ MainCtxDone
    \/ MainErr
    \/ MainKey
    \/ Step(1)

\* The main goroutine runs the call it is in to its end, and a select with
\* several ready cases picks one of them at random, so that a case that is
\* ready at every visit of the select is taken in the end.
FairTTY ==
    /\ Init /\ [][NextQuit]_vars
    /\ WF_vars(Step(1))
    /\ SF_vars(MainCtxDone)

\* ------------------------------------------------- ParseConfig
\* main: cfg := telemetry.ParseConfig(), first of all
NextConfig ==
    \/ \E key \in EnvVars : \E text \in Texts(key) : Setenv(key, text)
    \/ \E name \in FlagNames : \E text \in Texts(name) : GiveFlag(name, text)
    \/ ParseConfig

SpecConfig == Init /\ [][NextConfig]_vars

\* ------------------------------------------------------------ InitOTel
\* strings.TrimPrefix
TrimPrefix(str, prefix) ==
    IF Len(str) >= Len(prefix) /\ SubSeq(str, 1, Len(prefix)) = prefix
    THEN SubSeq(str, Len(prefix) + 1, Len(str))
    ELSE str

\* a step of InitOTel or of main after it
OTelStep(from, to) ==
    /\ otel.pc = from
    /\ otel' = to
    /\ UNCHANGED <<shared, mu, pc, locals, ctxs, ghost, tty, environ, flags, config>>

\* return nil, fmt.Errorf("failed to create ... exporter: %w", err)
OTelFails(what) == [otel EXCEPT !.pc = "returned", !.err = what]

\* main: if cfg.Environment == telemetry.Production { InitOTel(ctx, cfg) };
\* InitOTel: the no-op shutdown for an empty endpoint, else the scheme is
\* stripped from the endpoint
OTelCall ==
    /\ config # NotParsed
    /\ config[1].Environment = "production"
    /\ OTelStep("idle",
                IF config[1].OTLPEndpoint = <<>>
                THEN [otel EXCEPT !.pc = "returned", !.err = "nil"]
                ELSE [otel EXCEPT
                        !.pc = "trace_exporter",
                        !.endpoint = TrimPrefix(TrimPrefix(config[1].OTLPEndpoint,
                                                           <<"h", "t", "t", "p", ":", "/", "/">>),
                                                <<"h", "t", "t", "p", "s", ":", "/", "/">>)])

\* traceExporter, err := otlptracehttp.New(...); if err != nil { return }
OTelTraceExporter ==
    \E ok \in BOOLEAN :
        OTelStep("trace_exporter",
                 IF ok THEN [otel EXCEPT !.pc = "tracer_provider"]
                 ELSE OTelFails("failed to create trace exporter"))

\* tp := sdktrace.NewTracerProvider(WithBatcher(...)); otel.SetTracerProvider(tp);
\* otel.SetTextMapPropagator(...)
OTelTracerProvider ==
    OTelStep("tracer_provider",
             [otel EXCEPT !.pc = "log_exporter", !.running = @ \cup {"tp"},
                          !.tracerProvider = "tp", !.propagator = "composite"])

\* logExporter, err := otlploghttp.New(...); if err != nil { return }
OTelLogExporter ==
    \E ok \in BOOLEAN :
        OTelStep("log_exporter",
                 IF ok THEN [otel EXCEPT !.pc = "logger_provider"]
                 ELSE OTelFails("failed to create log exporter"))

\* lp := sdklog.NewLoggerProvider(...); global.SetLoggerProvider(lp)
OTelLoggerProvider ==
    OTelStep("logger_provider",
             [otel EXCEPT !.pc = "metric_exporter", !.running = @ \cup {"lp"},
                          !.loggerProvider = "lp"])

\* metricExporter, err := otlpmetrichttp.New(...); if err != nil { return }
OTelMetricExporter ==
    \E ok \in BOOLEAN :
        OTelStep("metric_exporter",
                 IF ok THEN [otel EXCEPT !.pc = "meter_provider"]
                 ELSE OTelFails("failed to create metric exporter"))

\* mp := sdkmetric.NewMeterProvider(...); otel.SetMeterProvider(mp);
\* return the combined shutdown, nil
OTelMeterProvider ==
    OTelStep("meter_provider",
             [otel EXCEPT !.pc = "returned", !.err = "nil", !.running = @ \cup {"mp"},
                          !.meterProvider = "mp"])

\* main: if err != nil { log.Fatal(err) }
OTelFatal ==
    /\ otel.err # "nil"
    /\ OTelStep("returned", [otel EXCEPT !.pc = "fatal"])

\* main returns: the deferred otelShutdown(shutdownCtx) shuts down tp, lp, mp
OTelShutdown ==
    /\ otel.err = "nil"
    /\ OTelStep("returned", [otel EXCEPT !.pc = "shutdown", !.running = {}])

\* the process from its start to the end of InitOTel, and main's use of
\* what InitOTel returned
NextOTel ==
    \/ NextConfig
    \/ OTelCall
    \/ OTelTraceExporter
    \/ OTelTracerProvider
    \/ OTelLogExporter
    \/ OTelLoggerProvider
    \/ OTelMetricExporter
    \/ OTelMeterProvider
    \/ OTelFatal
    \/ OTelShutdown

SpecOTel == Init /\ [][NextOTel]_vars

\* ------------------------------------------------------------ claims
PDPcs == {"pd_warn_invalid", "pd_ic_lock", "pd_ic_cs", "pd_log_pressed",
          "pd_warn_cooking", "pd_lock", "pd_cs", "pd_warn_max", "pd_log_updated"}

\* C1: no PressDigit call writes digits or digitCount in a state where
\* isCooking is true (the claim as stated; the code breaks it)
C1_NoDigitWriteWhileCooking ==
    [][\A t \in Threads :
          (pc[t] = "pd_cs" /\ pc'[t] # pc[t] /\ isCooking)
              => (digits' = digits /\ digitCount' = digitCount)]_vars

\* C2: the final critical section of a PressStart call that ran a countdown
\* leaves isCooking false, digits [0,0,0,0] and digitCount 0, completed or
\* canceled, and a PressDigit(d) applied to that state is accepted and
\* makes the display 00:0d
C2_ResetThenReady ==
    [][\A t \in Threads :
          /\ (pc[t] = "ps_reset_cs" /\ pc'[t] # pc[t])
                => /\ ~isCooking' /\ digits' = Zero /\ digitCount' = 0
                   /\ pc'[t] = IF completed[t] THEN "ps_log_complete" ELSE "ps_log_canceled"
          /\ (pc[t] = "pd_cs" /\ pc'[t] # pc[t] /\ digits = Zero /\ digitCount = 0)
                => /\ displayString(digits') = <<0, 0, ":", 0, d[t]>>
                   /\ digitCount' = 1]_vars

C2_Witness ==
    \E t \in Threads :
        /\ pc[t] = "ps_log_canceled"
        /\ ~isCooking /\ digits = Zero /\ digitCount = 0

\* C3 as stated: a cancel before the call or at any point while countdown is
\* running makes PressStart report 'cooking canceled'
C3_CanceledWheneverRunning ==
    \A t \in Threads :
        (pc[t] \in {"ps_log_complete", "ps_log_canceled"} /\ cancelAt[t] \in {"early", "final"})
            => pc[t] = "ps_log_canceled"

\* C3 amended: a cancel before the call, or while a wait of the countdown is
\* still ahead (remaining seconds > 0), makes countdown return false and
\* PressStart report 'cooking canceled', and the report is preceded by the
\* critical section that clears isCooking, digits and digitCount
C3_CanceledBeforeLastWait ==
    /\ [](\A t \in Threads :
            (pc[t] \in PSAfter /\ cancelAt[t] = "early")
                => (~completed[t] /\ pc[t] # "ps_log_complete"))
    /\ [][\A t \in Threads :
            (pc'[t] = "ps_log_canceled" /\ pc[t] # "ps_log_canceled")
                => /\ pc[t] = "ps_reset_cs"
                   /\ ~isCooking' /\ digits' = Zero /\ digitCount' = 0]_vars

C3_Witness ==
    \E t \in Threads : pc[t] = "ps_log_canceled" /\ cancelAt[t] = "early"

C5_CookingIffCountdown ==
    /\ \A t \in Threads : pc[t] \in InCountdown => isCooking
    /\ isCooking => \E t \in Threads : pc[t] \in InCountdown \cup {"ps_reset_lock", "ps_reset_cs"}

\* C6 as stated: at most one countdown is in progress at any time
C6_OneCountdown ==
    Cardinality({t \in Threads : pc[t] \in InCountdown}) <= 1

\* C7: a PressStart call whose check finds isCooking true writes none of
\* digits, digitCount and isCooking, starts no countdown, and returns
C7_StartIgnoredWhileCooking ==
    [][\A t \in Threads :
          (/\ pc'[t] # pc[t]
           /\ \/ pc[t] = "ps_ic_cs" /\ isCooking
              \/ pc[t] \in {"ps_log_pressed", "ps_warn_ignored"} /\ cooking[t])
              => /\ digits' = digits /\ digitCount' = digitCount
                 /\ isCooking' = isCooking
                 /\ pc'[t] \in {"ps_log_pressed", "ps_warn_ignored", "idle"}]_vars

C7_Witness ==
    \E t \in Threads : pc[t] = "ps_warn_ignored" /\ isCooking /\ digits # Zero

\* the n digits pressed, left-padded with zeros to four positions
Padded(seq) ==
    [i \in 1..4 |-> IF i <= 4 - Len(seq) THEN 0 ELSE seq[i - (4 - Len(seq))]]

\* C8: on a fresh idle oven, after n <= 4 PressDigit calls with digits in
\* 0..9, Display returns those digits in press order, most recent last,
\* left-padded with zeros, formatted MM:SS
C8_DisplayAfterEntry ==
    (pc[1] = "idle" /\ nPressed <= 4)
        => /\ Len(pressed) = nPressed
           /\ displayString(digits) =
                 <<Padded(pressed)[1], Padded(pressed)[2], ":",
                   Padded(pressed)[3], Padded(pressed)[4]>>

C8_Witness ==
    pc[1] = "idle" /\ pressed = <<1, 2, 3, 4>> /\ nPressed = 4
        /\ displayString(digits) = <<1, 2, ":", 3, 4>>

\* C9: with digitCount = 4 on an idle oven, the 5th and every later valid
\* PressDigit leaves digits and digitCount unchanged: the display stays at
\* the value shown after the 4th press
C9_FifthPressIgnored ==
    nPressed > 4 => (digits = pressed /\ digitCount = 4)

C9_Witness ==
    pc[1] = "pd_warn_max" /\ nPressed = 5 /\ digits = <<1, 2, 3, 4>> /\ d[1] = 5

\* C10: PressDigit(d) with d < 0 or d > 9 changes none of digits, digitCount
\* and isCooking in any state, and takes no step but the warning and return
C10_InvalidDigitNoChange ==
    /\ [](\A t \in Threads :
            (pc[t] \in PDPcs /\ (d[t] < 0 \/ d[t] > 9)) => pc[t] = "pd_warn_invalid")
    /\ [][\A t \in Threads :
            (pc'[t] # pc[t] /\ (pc[t] = "pd_warn_invalid" \/ pc'[t] = "pd_warn_invalid"))
                => /\ digits' = digits /\ digitCount' = digitCount
                   /\ isCooking' = isCooking
                   /\ pc'[t] \in {"pd_warn_invalid", "idle"}]_vars

C10_Witness ==
    \E t \in Threads :
        pc[t] = "pd_warn_invalid" /\ d[t] = 10 /\ isCooking /\ digitCount = 4
\* C11 as stated: a PressStart call that reads a displayed time of 0 seconds
\* writes nothing and returns, and no step takes isCooking from false to
\* true while the display reads 0 seconds (the code breaks the second part)
C11_NoCookFromZero ==
    [][/\ \A t \in Threads :
             (/\ pc'[t] # pc[t]
              /\ \/ pc[t] = "ps_total_cs" /\ totalSeconds(digits) = 0
                 \/ pc[t] = "ps_warn_zero")
                => /\ shared' = shared
                   /\ pc'[t] \in {"ps_warn_zero", "idle"}
       /\ (~isCooking /\ isCooking') => totalSeconds(digits) # 0]_vars
C13_DigitCountCountsAccepted ==
    /\ [](digitCount \in 0..4)
    /\ [][/\ \A t \in Threads :
                (pc[t] = "pd_cs" /\ pc'[t] = "pd_log_updated")
                    => (digits' = ShiftIn(digits, d[t]) /\ digitCount' = digitCount + 1)
          /\ \A t \in Threads :
                (pc[t] = "ps_reset_cs" /\ pc'[t] # pc[t]) => digitCount' = 0
          /\ digitCount' # digitCount
                => \E t \in Threads :
                      \/ pc[t] = "pd_cs" /\ pc'[t] = "pd_log_updated"
                      \/ pc[t] = "ps_reset_cs" /\ pc'[t] # pc[t]]_vars

C13_Witness ==
    \E t \in Threads :
        pc[t] = "pd_log_updated" /\ digitCount = 4 /\ pc[3 - t] = "pd_warn_max"
\* the ways to pick k of the first n calls and put them in an order
Orders(n, k) ==
    {f \in [1..k -> 1..n] : \A i, j \in 1..k : i # j => f[i] # f[j]}

Min(a, b) == IF a < b THEN a ELSE b

\* C14: PressDigit calls with valid digits made concurrently on an idle
\* oven leave what some one-at-a-time order of them leaves: in every state
\* digits hold digitCount of the calls made, in some order, left-padded with
\* zeros, and once all calls have returned digitCount = min(4, number of
\* calls)
C14_ConcurrentEntryIsSequential ==
    /\ \E f \in Orders(nPressed, digitCount) :
          digits = Padded([i \in 1..digitCount |-> pressed[f[i]]])
    /\ (\A t \in Threads : pc[t] = "idle") => digitCount = Min(4, nPressed)

C14_Witness ==
    /\ \A t \in Threads : pc[t] = "idle"
    /\ pressed = <<1, 2, 1, 2, 1>>
    /\ digits = <<2, 1, 1, 2>>
\* C15: the string Display returns is the digits of a state between
\* critical sections, all four digits from the same state, and the flag
\* IsCooking returns is the flag of such a state: when the result has been
\* made, it equals the fields as they are, and no other goroutine is inside
\* a critical section (a PressDigit shift, a tick, a reset) at that moment
C15_ReadersSeeSnapshot ==
    \A r \in Threads :
        /\ pc[r] = "rd_done"
              => /\ display[r] = displayString(digits)
                 /\ \A t \in Threads \ {r} : pc[t] \notin Holding
        /\ pc[r] = "ic_done"
              => /\ cooking[r] = isCooking
                 /\ \A t \in Threads \ {r} : pc[t] \notin Holding

C15_Witness ==
    /\ pc[2] = "rd_done" /\ display[2] = <<0, 1, ":", 0, 0>>
    /\ pc[1] = "cd_wait" /\ isCooking
\* C16: no logging, print, metric or span call is made with the mutex
\* held: a goroutine about to make one does not hold mu, the mutex is held
\* only inside critical sections, and a call that writes out the display
\* uses the string copied into a local inside the critical section
C16_NoIOUnderLock ==
    \A t \in Threads :
        /\ pc[t] \in Logging => mu # t
        /\ mu = t => pc[t] \in Holding
        /\ pc[t] \in LoggingDisplay => Len(display[t]) = 5

C16_Witness ==
    \E t \in Threads :
        /\ pc[t] = "pd_warn_max" /\ mu = 3 - t
        /\ pc[3 - t] = "cd_tick_cs"
C18_EveryCallLogsPressed ==
    [][\A t \in Threads :
          (pc[t] \in PDPcs /\ pc'[t] = "idle")
              => (Len(emitted[t]) = 1 /\ emitted[t][1].digit = d[t])]_vars

\* C18 amended: every PressDigit call with d in 0..9 - accepted, ignored
\* while cooking, or ignored at capacity - logs exactly one "digit pressed"
\* record, carrying d and the flag its IsCooking() call returned; a call with
\* d out of range logs none (its only record is "invalid digit ignored")
C18_ValidCallLogsPressed ==
    [][\A t \in Threads :
          (pc[t] \in PDPcs /\ pc'[t] = "idle")
              => IF d[t] \in 0..9
                 THEN emitted[t] = <<[digit |-> d[t], cooking |-> cooking[t]]>>
                 ELSE emitted[t] = <<>>]_vars

C18_Witness ==
    \E t \in Threads :
        /\ pc[t] = "pd_warn_max"
        /\ emitted[t] = <<[digit |-> 0, cooking |-> FALSE]>>
        /\ emitted[3 - t] = <<[digit |-> 0, cooking |-> TRUE]>>
        /\ pc[3 - t] = "pd_warn_cooking"
\* the bytes the reading goroutine has to put into keyChan before it reads
\* the last byte typed
Ahead == Len(stdin) - 1 + (IF reader \in {"check", "send"} THEN 1 ELSE 0)

\* C19 as stated: whatever keys were typed before it, a Ctrl-C typed while
\* the countdown runs cancels the context at once: when the byte is typed
\* (no cancel being under way), the reading goroutine can get to it and
\* call cancel() without the main loop, which is inside PressStart until the
\* countdown returns, receiving anything from keyChan
C19_CtrlCReachesCancel ==
    [][(/\ stdin' = Append(stdin, CtrlC)
        /\ pc[1] \in InCountdown
        /\ ~ctxCanceled
        /\ \A i \in 1..Len(stdin) : stdin[i] # CtrlC
        /\ ~(reader = "check" /\ buf = CtrlC))
           => Ahead' <= KeyChanCap - Len(keyChan')]_vars
\* C20: a newly constructed Microwave has digits [0,0,0,0], digitCount 0
\* and isCooking false, so that Display returns 00:00 and IsCooking returns
\* false: so it is for as long as no valid PressDigit call has been made
C20_NewIsZero ==
    nPressed = 0
        => /\ digits = <<0, 0, 0, 0>>
           /\ digitCount = 0
           /\ isCooking = FALSE
           /\ displayString(digits) = <<0, 0, ":", 0, 0>>

C20_Witness ==
    /\ \A t \in Threads : pc[t] = "idle"
    /\ nPressed = 0 /\ mu = 0
    /\ displayString(digits) = <<0, 0, ":", 0, 0>> /\ ~isCooking
\* C22: cancellation is observed only at the wait of countdown.  No step
\* of countdown but its wait returns to the caller; with the context
\* canceled, a pass of the loop with seconds >= 1 still takes the lock,
\* writes the digits of that many seconds and prints them, seconds staying as
\* they are; the wait then returns false, writing none of the fields, and
\* while the context is canceled the loop is not entered again.  So a call
\* with an already-canceled context and seconds >= 1 makes exactly one tick,
\* showing the start time, and returns false
C22_CancelSeenAtWait ==
    [][\A t \in Threads :
          (pc[t] \in InCountdown /\ pc'[t] # pc[t])
              => /\ pc[t] \notin {"cd_wait", "cd_final_io"} => pc'[t] \in InCountdown
                 /\ (ctxDone[t] /\ pc[t] # "cd_wait")
                       => /\ seconds'[t] = seconds[t] /\ ctxDone'[t]
                          /\ pc'[t] # "cd_loop"
                          /\ (pc[t] = "cd_loop" /\ seconds[t] >= 1)
                                => pc'[t] \in {"cd_warn_overflow", "cd_tick_lock"}
                          /\ pc[t] = "cd_warn_overflow" => pc'[t] = "cd_tick_lock"
                          /\ pc[t] = "cd_tick_lock" => pc'[t] = "cd_tick_cs"
                          /\ pc[t] = "cd_tick_cs"
                                => (digits' = TickDigits(seconds[t]) /\ pc'[t] = "cd_tick_io")
                          /\ pc[t] = "cd_tick_io" => pc'[t] = "cd_wait"
                 /\ (ctxDone[t] /\ pc[t] = "cd_wait")
                       => /\ pc'[t] = "cd_ret" /\ ~completed'[t]
                          /\ shared' = shared]_vars

C22_Witness ==
    /\ pc[1] = "cd_ret" /\ ~completed[1] /\ cancelAt[1] = "early"
    /\ digits = <<0, 0, 1, 0>> /\ digitCount = 0
\* C23: on its canceled path countdown writes nothing after its last tick:
\* the return of false leaves digits, digitCount and isCooking as they are,
\* digits being those of the last tick (the value written for the seconds
\* then remaining, never 00:00), and no step of countdown, canceled or not,
\* writes digitCount or isCooking; the caller finds the ticked value
C23_CanceledLeavesLastTick ==
    /\ [](\A t \in Threads :
            (pc[t] = "cd_ret" /\ ~completed[t]) => (digits # Zero /\ ~isCooking))
    /\ [][\A t \in Threads :
            /\ (pc[t] = "cd_wait" /\ pc'[t] = "cd_ret")
                  => /\ ~completed'[t]
                     /\ digits = TickDigits(seconds[t])
                     /\ digits' = digits
            /\ (pc[t] \in InCountdown /\ pc'[t] # pc[t])
                  => (digitCount' = digitCount /\ isCooking' = isCooking)]_vars

C23_Witness ==
    /\ pc[1] = "cd_ret" /\ ~completed[1]
    /\ digits = <<9, 9, 9, 9>> /\ digitCount = 2 /\ ~isCooking
\* C24: countdown called with seconds = 0, canceled context or not, makes
\* no tick: from the loop test it goes to the final critical section, which
\* sets digits to [0,0,0,0] whatever they held, and it returns true
C24_ZeroSecondsCompletes ==
    [][\A t \in Threads :
          (pc[t] \in InCountdown /\ seconds[t] = 0 /\ pc'[t] # pc[t])
              => /\ pc[t] \in {"cd_loop", "cd_final_lock", "cd_final_cs", "cd_final_io"}
                 /\ pc[t] = "cd_loop" => (pc'[t] = "cd_final_lock" /\ digits' = digits)
                 /\ pc[t] = "cd_final_lock" => (pc'[t] = "cd_final_cs" /\ digits' = digits)
                 /\ pc[t] = "cd_final_cs" => (pc'[t] = "cd_final_io" /\ digits' = <<0, 0, 0, 0>>)
                 /\ pc[t] = "cd_final_io"
                       => (pc'[t] = "cd_ret" /\ completed'[t] /\ digits' = digits)
                 /\ pc'[t] \in InCountdown => seconds'[t] = 0]_vars

C24_Witness ==
    /\ pc[1] = "cd_ret" /\ completed[1] /\ cancelAt[1] = "early"
    /\ digits = Zero /\ digitCount = 4
\* the minutes and seconds fields a tick is to display for R remaining
\* seconds, by the three ranges of R
Shown(R) ==
    IF R < 6000 THEN <<R \div 60, R % 60>>
    ELSE IF R <= 6059 THEN <<99, (R % 60) + 60>>
    ELSE <<99, 99>>

\* C25: for every remaining value R >= 1 a tick stores minutes and seconds
\* (R div 60, R mod 60) when R < 6000, (99, (R mod 60) + 60) when
\* 6000 <= R <= 6059 and (99, 99) when R >= 6060, each field as its tens
\* (field div 10) and its ones (field mod 10), and prints them; the overflow
\* warning is logged in the pass exactly when R >= 6060
C25_TickShowsByRange ==
    [][\A t \in Threads :
          /\ (pc[t] = "cd_tick_cs" /\ pc'[t] # pc[t])
                => /\ seconds[t] >= 1
                   /\ digits' = <<Shown(seconds[t])[1] \div 10, Shown(seconds[t])[1] % 10,
                                  Shown(seconds[t])[2] \div 10, Shown(seconds[t])[2] % 10>>
                   /\ display'[t] = displayString(digits')
          /\ (pc[t] = "cd_loop" /\ pc'[t] # pc[t] /\ seconds[t] >= 1)
                => (pc'[t] = "cd_warn_overflow" <=> seconds[t] >= 6060)
          /\ (pc[t] = "cd_warn_overflow" /\ pc'[t] # pc[t]) => pc'[t] = "cd_tick_lock"]_vars

C25_Witness ==
    /\ pc[1] = "cd_tick_io" /\ seconds[1] = 6000
    /\ digits = <<9, 9, 6, 0>> /\ display[1] = <<9, 9, ":", 6, 0>>
\* C26 as stated: countdown keeps every digit in 0..9 for every seconds
\* argument it is called with, the range of 6000 seconds and above included
\* (the code breaks it for 6040..6059 seconds)
C26_DirectDigitsInRange ==
    \A i \in 1..4 : digits[i] \in 0..9
\* C27 as stated: a cook cycle started by PressStart never executes an
\* overflow branch of countdown: no pass of its loop finds overflowMins >= 1
C27_NoOverflowBranch ==
    \A t \in Threads :
        (pc[t] \in InCountdown /\ seconds[t] > 0) => overflowMins(seconds[t]) < 1

\* C27 amended: in a cook cycle started by PressStart the remaining seconds
\* are at most 6039, so the saturation branch (overflowMins > 1) and its
\* warning are never reached; the fold branch (overflowMins = 1) is executed
\* in the passes with 6000..6039 seconds remaining, which an entered time of
\* 99:60 up to 99:99 gives, and in no others
C27_OnlyFoldFromEntry ==
    \A t \in Threads :
        pc[t] \in InCountdown
            => /\ seconds[t] \in 0..6039
               /\ pc[t] # "cd_warn_overflow"
               /\ overflowMins(seconds[t]) <= 1
               /\ overflowMins(seconds[t]) = 1 <=> seconds[t] \in 6000..6039

C27_Witness ==
    /\ pc[1] = "cd_tick_io" /\ seconds[1] = 6039 /\ isCooking
    /\ digits = <<9, 9, 9, 9>> /\ digitCount = 4
\* C28: at every tick of a cook cycle started through PressStart the digits
\* written encode the remaining time: once a tick has written them and
\* until the wait is over, (digits[0]*10 + digits[1])*60 + digits[2]*10 +
\* digits[3] equals the remaining seconds, which are in 1..6039, each digit
\* being in 0..9 (an entered seconds field above 59 is re-expressed by the
\* first tick, the total unchanged)
C28_TickEncodesRemaining ==
    \A t \in Threads :
        pc[t] \in {"cd_tick_io", "cd_wait"}
            => /\ seconds[t] \in 1..6039
               /\ \A i \in 1..4 : digits[i] \in 0..9
               /\ (digits[1] * 10 + digits[2]) * 60 + digits[3] * 10 + digits[4]
                     = seconds[t]

C28_Witness ==
    /\ pc[1] = "cd_wait" /\ seconds[1] = 99 /\ isCooking
    /\ digits = <<0, 1, 3, 9>> /\ digitCount = 2
\* C29: totalSeconds of digits [a,b,c,d] is (10a+b)*60 + (10c+d) for all
\* digits in 0..9, a seconds field above 59 counted as it stands: what
\* PressStart reads under the lock is 600a + 60b + 10c + d, so 01:35 gives
\* 95, 01:30 gives 90, 00:99 gives 99, 99:99 gives 6039 and 00:00 gives 0
C29_TotalSecondsIsPlainSum ==
    [][\A t \in Threads :
          (pc[t] = "ps_total_cs" /\ pc'[t] # pc[t])
              => /\ seconds'[t] = 600 * digits[1] + 60 * digits[2] + 10 * digits[3] + digits[4]
                 /\ digits = <<0, 1, 3, 5>> => seconds'[t] = 95
                 /\ digits = <<0, 1, 3, 0>> => seconds'[t] = 90
                 /\ digits = <<0, 0, 9, 9>> => seconds'[t] = 99
                 /\ digits = <<9, 9, 9, 9>> => seconds'[t] = 6039
                 /\ digits = <<0, 0, 0, 0>> => seconds'[t] = 0]_vars

C29_Witness ==
    /\ pc[1] = "ps_span" /\ seconds[1] = 6039
    /\ digits = <<9, 9, 9, 9>>
\* C30 as stated: the seconds a cook cycle counts down from are
\* totalSeconds of the digits in the state where isCooking becomes true, and
\* the initial display recorded for the cycle shows those digits (so the
\* display and the seconds recorded together read the same time), in every
\* interleaving of PressStart with PressDigit (the code breaks it)
C30_CycleStartsFromShownDigits ==
    /\ [][\A t \in Threads :
            (pc[t] = "ps_set_cs" /\ pc'[t] = "cd_loop")
                => seconds[t] = totalSeconds(digits)]_vars
    /\ [](\A t \in Threads :
            pc[t] = "ps_attrs"
                => totalSeconds(<<display[t][1], display[t][2],
                                  display[t][4], display[t][5]>>) = seconds[t])
\* the text a setting is taken from: the flag if given, else the variable
\* if not empty, else the default
Resolved(name, key, defaultVal) ==
    IF flags[name].given THEN flags[name].text
    ELSE IF environ[key] # <<>> THEN environ[key]
    ELSE defaultVal

\* C21: ParseConfig takes each setting from the command-line flag if given,
\* else from the MEGAWAVE_* variable if non-empty, else from the default
\* (development, info, megawave.log, no endpoint): Environment and LogLevel
\* are that text as parseEnvironment and parseLogLevel read it, LogFile and
\* OTLPEndpoint are the text itself; a flag given wins over the variable,
\* and with no flag and no variable the Config is the defaults
C21_FlagThenEnvThenDefault ==
    config # NotParsed
        => /\ config[1].Environment
                 = parseEnvironment(Resolved("env", "MEGAWAVE_ENV", <<"d", "e", "v", "e", "l", "o", "p", "m", "e", "n", "t">>))
           /\ config[1].LogLevel
                 = parseLogLevel(Resolved("log-level", "MEGAWAVE_LOG_LEVEL", <<"i", "n", "f", "o">>))
           /\ config[1].LogFile = Resolved("log-file", "MEGAWAVE_LOG_FILE", <<"m", "e", "g", "a", "w", "a", "v", "e", ".", "l", "o", "g">>)
           /\ config[1].OTLPEndpoint
                 = Resolved("otlp-endpoint", "MEGAWAVE_OTLP_ENDPOINT", <<>>)
           /\ flags["log-file"].given => config[1].LogFile = flags["log-file"].text
           /\ flags["otlp-endpoint"].given
                 => config[1].OTLPEndpoint = flags["otlp-endpoint"].text
           /\ (flags["env"].given /\ flags["env"].text = <<"t", "e", "s", "t">>)
                 => config[1].Environment = "test"
           /\ (flags["log-level"].given /\ flags["log-level"].text = <<"d", "e", "b", "u", "g">>)
                 => config[1].LogLevel = "DEBUG"
           /\ (~flags["env"].given /\ environ["MEGAWAVE_ENV"] = <<"P", "R", "O", "D">>)
                 => config[1].Environment = "production"
           /\ ((\A name \in FlagNames : ~flags[name].given)
                  /\ (\A key \in EnvVars : environ[key] = <<>>))
                 => config[1] = [Environment |-> "development", LogLevel |-> "INFO",
                                 LogFile |-> <<"m", "e", "g", "a", "w", "a", "v", "e", ".", "l", "o", "g">>,
                                 OTLPEndpoint |-> <<>>]

C21_Witness ==
    /\ config # NotParsed
    /\ flags["env"] = [given |-> TRUE, text |-> <<"t", "e", "s", "t">>]
    /\ environ["MEGAWAVE_ENV"] = <<"P", "R", "O", "D">>
    /\ config[1].Environment = "test"
    /\ ~flags["log-level"].given /\ environ["MEGAWAVE_LOG_LEVEL"] = <<"W", "A", "R", "N">>
    /\ config[1].LogLevel = "WARN"
    /\ ~flags["log-file"].given /\ environ["MEGAWAVE_LOG_FILE"] = <<>>
    /\ config[1].LogFile = <<"m", "e", "g", "a", "w", "a", "v", "e", ".", "l", "o", "g">>
\* pc values of a PressStart call from the 'cooking started' record to the
\* lock of the critical section that ends the cycle
StartedNotEnded ==
    {"ps_set_lock", "ps_set_cs"} \cup InCountdown \cup {"ps_reset_lock"}

\* C31 as stated: isCooking is set before the span, the sessions counter
\* and the 'cooking started' record: whenever a call has emitted 'cooking
\* started' and its cycle has not ended, isCooking is true and an
\* IsCooking() call returns true (the code breaks it)
C31_CookingBeforeStarted ==
    \A t \in Threads :
        pc[t] \in StartedNotEnded
            => /\ isCooking
               /\ \A r \in Threads \ {t} : pc[r] = "ic_done" => cooking[r]

\* C33 as stated: the idle oven can always make progress: in every state
\* with isCooking = false and no call in flight, digitCount < 4 (a valid
\* PressDigit changes the display) or the displayed time is nonzero
\* (PressStart starts a cycle) (the code breaks it)
C33_IdleCanProgress ==
    (~isCooking /\ \A t \in Threads : pc[t] = "idle")
        => (~AtCapacity(digitCount) \/ totalSeconds(digits) # 0)

\* pc values of a PressStart call from the countdown to its last record
CycleEnding ==
    InCountdown
    \cup {"cd_tick_cs", "cd_tick_w2", "cd_tick_w3", "cd_tick_w4", "cd_tick_w5",
          "cd_final_cs", "cd_final_w2", "cd_final_w3", "cd_final_w4", "cd_final_w5",
          "ps_reset_lock", "ps_reset_cs"}
    \cup {PSResetAt[i] : i \in 1..5}
    \cup {"ps_log_complete", "ps_log_canceled"}

\* pc values at which a Display or IsCooking call reads the fields
Observing == {RDAt[i] : i \in 1..5} \cup {"ic_cs", "ic_done"}

\* C34: isCooking is cleared and digits and digitCount are reset in one
\* critical section: with a single PressStart call in progress, a goroutine
\* that reads the fields while the cycle ends finds isCooking still true or
\* the digits and digitCount already reset, never isCooking = false with
\* digits or digitCount left over, and an IsCooking() that returns false
\* was made on a reset oven
C34_ResetInOneCriticalSection ==
    \A r \in Threads \ {1} :
        (pc[r] \in Observing /\ pc[1] \in CycleEnding)
            => /\ isCooking \/ (digits = Zero /\ digitCount = 0)
               /\ pc[1] \notin {PSResetAt[i] : i \in 1..5}
               /\ (pc[r] = "ic_done" /\ ~cooking[r])
                      => (digits = Zero /\ digitCount = 0)

\* a Display call waits for the mutex while a canceled cycle, its flag
\* cleared, still has its last tick in the digits
C34_Witness ==
    /\ pc[1] = "ps_reset_w3"
    /\ pc[2] = "rd_lock"
    /\ ~isCooking
    /\ ~completed[1]
    /\ digits[4] # 0
    /\ digitCount > 0

\* pc values at which the next step of a goroutine is m.mu.Lock()
Waiting ==
    {"pd_ic_lock", "pd_lock", "ps_ic_lock", "ps_total_lock", "ps_disp1_lock",
     "ps_disp2_lock", "ps_set_lock", "ps_reset_lock", "cd_tick_lock",
     "cd_final_lock", "rd_lock", "ic_lock"}

\* C35: the mutex never causes a deadlock: a goroutine about to call Lock
\* does not hold the mutex; the holder is inside a critical section, its
\* next step is never blocked and it leaves the critical section with the
\* mutex released (the early return at capacity included); so whenever a
\* goroutine waits for the mutex, it or the holder can take a step
C35_NoDeadlockOnMutex ==
    /\ [](\A t \in Threads :
            /\ pc[t] \in Waiting => mu # t
            /\ mu = t => (pc[t] \in Holding /\ ENABLED Step(t))
            /\ pc[t] \in Waiting => (mu = 0 /\ ENABLED Step(t)) \/ mu \in Threads \ {t})
    /\ [][\A t \in Threads :
            /\ (mu = t /\ pc'[t] # pc[t]) => (mu' = 0 /\ pc'[t] \notin Holding)
            /\ (mu = t /\ pc'[t] = pc[t]) => mu' = t
            /\ (mu # t /\ mu' = t) => (mu = 0 /\ pc[t] \in Waiting)]_vars

\* a goroutine waits for the mutex while the other one is at the capacity
\* check of PressDigit, about to take the early return
C35_Witness ==
    /\ pc[1] = "pd_cs"
    /\ mu = 1
    /\ AtCapacity(digitCount)
    /\ pc[2] \in Waiting

\* PressStart from the span to the call of countdown, in program order;
\* m.cookingSessions.Add(ctx, 1) is the step that leaves "ps_attrs"
PSChain ==
    <<"ps_span", "ps_disp1_lock", "ps_disp1_cs", "ps_attrs", "ps_disp2_lock",
      "ps_disp2_cs", "ps_log_started", "ps_set_lock", "ps_set_cs", "cd_loop">>

TakesLateDigit ==
    /\ AtSelect
    /\ keyChan # <<>>
    /\ IsDigitKey(Head(keyChan))
    /\ Head(typedAt)
    /\ keyChan' = Tail(keyChan)
    /\ pc'[1] # "idle"

\* C32 as stated: in runInteractive a digit typed while the countdown is
\* running is handled as 'digit ignored while cooking': it is passed to
\* PressDigit while isCooking is still true, and the call leaves the digits
\* alone (the code breaks it)
C32_LateDigitIgnored ==
    [][TakesLateDigit => isCooking]_vars

\* runInteractive returns in this step
ReturnsNow == result = "running" /\ result' # "running"

\* C37: once the context is canceled, runInteractive eventually returns;
\* what it returns because of the cancellation or a Ctrl-C key is
\* context.Canceled, with which main prints Goodbye!, and it returns
\* another value only when it has received it from errChan
C37_CanceledReturnsCanceled ==
    /\ (ctxCanceled /\ pc[1] = "idle") ~> (mainExit # "running")
    /\ [][/\ (ReturnsNow /\ result' = "context.Canceled")
              => (ctxCanceled \/ (keyChan # <<>> /\ Head(keyChan) = CtrlC))
          /\ (ReturnsNow /\ result' # "context.Canceled")
              => (errChan # <<>> /\ result' = Head(errChan))]_vars
    /\ [](result = "context.Canceled" => mainExit = "Goodbye!")

\* a signal has canceled the context at the select, no key was typed, and
\* runInteractive has returned
C37_Witness ==
    /\ ctxCanceled
    /\ mainExit = "Goodbye!"
    /\ typedAt = <<>>
    /\ errChan = <<>>
    /\ reader = "read"
    /\ pc[1] = "idle"

\* C38 as stated: if InitOTel returns a non-nil error, it has replaced no
\* global OpenTelemetry state (tracer provider, propagator, logger provider,
\* meter provider) and has left no provider it created running (the code
\* breaks it)
C38_FailedInitLeavesGlobals ==
    (otel.pc \in {"returned", "fatal"} /\ otel.err # "nil")
        => /\ otel.tracerProvider = "default"
           /\ otel.propagator = "default"
           /\ otel.loggerProvider = "default"
           /\ otel.meterProvider = "default"
           /\ otel.running = {}
====
